---- MODULE Spec2Model ----
(***************************************************************************)
(* Questionnaire submission in annjan777/medical_platform.                 *)
(*                                                                         *)
(* One questionnaire with a forest of questions (questionnaires/models.py) *)
(* and the three ways a submission reaches the database:                   *)
(*   - questionnaire_start      (questionnaires/views.py)                   *)
(*   - ResponseForm.save        (questionnaires/forms.py)                   *)
(*   - api_submit_questionnaire (health_assistant/views.py)                 *)
(* The database runs in autocommit mode (config/settings/base.py sets no   *)
(* ATOMIC_REQUESTS and none of the three paths opens a transaction), so    *)
(* every row written before an exception stays committed.                  *)
(***************************************************************************)
EXTENDS Integers, Sequences, FiniteSets, Bags, TLC

\* ---------------------------------------------------------------- bounds
NumQuestions == 3
MaxResponses == 1
MaxFiles == 2
MaxPatientSaves == 3
MaxQuestionnaires == 2
NumProcs == 2
NumSessions == 2
NumDevices == 2

\* ------------------------------------------------------------- constants
Questions == 1..NumQuestions
ResponseIds == 1..MaxResponses
NoParent == 0
NoResponse == 0
UnknownQuestion == 0
NoValue == "None"
Empty == ""
Values == {Empty, "yes", "no"}
RawMaps == [Questions -> Values]

TYPE_TEXT == "text"
TYPE_RADIO == "radio"
TYPE_FILE == "file"

VARIABLES
    question_rows,        \* the ids of the committed Question rows of the questionnaire
    depends_on_question,  \* Question.depends_on_question (0 = NULL)
    depends_on_value,     \* Question.depends_on_value
    is_required,          \* Question.is_required
    question_type,        \* Question.question_type
    options,              \* QuestionOption.value rows of each question
    responses,            \* committed Response rows (their ids)
    answers,              \* committed Answer rows (a bag: the table may hold equal rows)
    request,              \* the submission handled last
    result,               \* what the handler of that submission returned
    patients,             \* Patient.patient_id of the committed Patient rows
    patient_result,       \* what the last request on a Patient did
    patient_saves,        \* the number of new patients saved so far
    questionnaires,       \* the number of Questionnaire rows the builder API committed
    proc,                 \* the requests running ResponseForm.save at the same time
    sessions,             \* the committed ScreeningSession rows, by primary key
    last_session_pk,      \* the primary key the last new ScreeningSession was given
    devices,              \* the lock fields of the Device rows
    screening,            \* the request on a screening session handled last
    starting              \* the requests running start_screening at the same time

vars == <<question_rows, depends_on_question, depends_on_value, is_required, question_type,
          options, responses, answers, request, result, patients, patient_result,
          patient_saves, questionnaires, proc, sessions, last_session_pk, devices,
          screening, starting>>

patient_vars == <<patients, patient_result, patient_saves>>

\* What the requests on the questions, responses and answers of the
\* questionnaire leave alone.
screening_vars == <<sessions, last_session_pk, devices, screening, starting>>

elsewhere == <<patient_vars, questionnaires, proc, screening_vars>>

config == <<question_rows, depends_on_question, depends_on_value, is_required,
            question_type, options>>


\* ------------------------------------------------------------ the tables
\* An Answer row (questionnaires/models.py, class Answer).
AnswerRow(r, q, text, opts, file) ==
    [response |-> r, question |-> q, text_answer |-> text, number_answer |-> NoValue,
     date_answer |-> NoValue, file_answer |-> file, option_answer |-> opts]

\* Answer.objects.filter(response=r, question=q) on table tbl.
RowsOf(tbl, r, q) == {a \in BagToSet(tbl) : a.response = r /\ a.question = q}

\* Answer.Meta.unique_together = ('response', 'question'): an INSERT of a
\* second row for the pair raises IntegrityError.
UniqueViolation(tbl, r, q) == RowsOf(tbl, r, q) # {}

\* INSERT of one row.
InsertRow(tbl, row) == tbl (+) SetToBag({row})

\* UPDATE of one row (answer.save() on a fetched instance).
UpdateRow(tbl, old, new) == (tbl (-) SetToBag({old})) (+) SetToBag({new})

\* The next auto-increment primary key of Response.
NextResponseId == IF responses = {} THEN 1
                  ELSE (CHOOSE m \in responses : \A r \in responses : r <= m) + 1

\* ------------------------------------------------- ResponseForm validation
\* Field.clean of the field get_question_field builds for q: a required field
\* rejects the empty value; a ChoiceField rejects a value that is no choice.
FieldError(q, v) ==
    \/ is_required[q] /\ v = Empty
    \/ question_type[q] = TYPE_RADIO /\ v # Empty /\ v \notin options[q]

\* cleaned_data after BaseForm._clean_fields: the fields that cleaned.
field_cleaned_data(raw) ==
    [q \in {x \in question_rows : ~FieldError(x, raw[x])} |-> raw[q]]

\* ResponseForm.clean: every required question of the questionnaire whose
\* cleaned value is missing or empty gets 'This field is required.'
clean(raw) ==
    LET cleaned == field_cleaned_data(raw)
    IN {q \in question_rows :
          is_required[q] /\ (q \notin DOMAIN cleaned \/ cleaned[q] = Empty)}

\* Faulty variant of errors: the required check keyed to the answer of the question
\* before q in display order instead of to q alone.
errors_by_previous_answer(raw) ==
    {q \in question_rows :
        /\ FieldError(q, raw[q]) \/ q \in clean(raw)
        /\ q = 1 \/ raw[q - 1] # Empty}

\* Faulty variant of errors: validation stops at the first question in error.
errors_first_only(raw) ==
    LET all == {q \in question_rows : FieldError(q, raw[q])} \cup clean(raw)
    IN {q \in all : \A x \in all : q <= x}

\* form.errors (its question fields).
errors(raw) == {q \in question_rows : FieldError(q, raw[q])} \cup clean(raw)

\* form.is_valid()
is_valid(raw) == errors(raw) = {}

\* form.cleaned_data once validation ended (add_error drops the field).
cleaned_data(raw) == [q \in question_rows \ errors(raw) |-> raw[q]]

\* ------------------------------------------------ ResponseForm.save_answers
\* Faulty variant of SaveAnswer: a row created on every save, no get_or_create.
SaveAnswer_create_always(tbl, r, q, value) ==
    InsertRow(tbl, AnswerRow(r, q, IF question_type[q] = TYPE_RADIO THEN Empty ELSE value,
                             IF question_type[q] = TYPE_RADIO /\ value \in options[q]
                             THEN {value} ELSE {},
                             NoValue))

\* The body of the loop for one question: get_or_create, clear the slots,
\* set the slot of the question's type, save.
SaveAnswer(tbl, r, q, value) ==
    LET existing == RowsOf(tbl, r, q)
        created == existing = {}
        old == IF created THEN AnswerRow(r, q, Empty, {}, NoValue)
               ELSE CHOOSE a \in existing : TRUE
        new == IF question_type[q] = TYPE_RADIO
               THEN [old EXCEPT !.text_answer = Empty, !.number_answer = NoValue,
                                !.date_answer = NoValue,
                                !.option_answer =
                                    IF value # Empty /\ value \in options[q]
                                    THEN {value} ELSE {}]
               ELSE [old EXCEPT !.text_answer = value, !.number_answer = NoValue,
                                !.date_answer = NoValue, !.option_answer = {}]
    IN IF created THEN InsertRow(tbl, new) ELSE UpdateRow(tbl, old, new)

\* save_answers, from question q on: the questions in display order, an
\* Answer written for every question whose field is in cleaned_data.
RECURSIVE save_answers(_, _, _, _)
save_answers(tbl, r, cleaned, q) ==
    IF q > NumQuestions THEN tbl
    ELSE save_answers(IF q \in DOMAIN cleaned THEN SaveAnswer(tbl, r, q, cleaned[q])
                      ELSE tbl,
                      r, cleaned, q + 1)


\* ------------------------------------------------------------- requests
FileKeys == UNION {[1..n -> Questions \cup {UnknownQuestion}] : n \in 0..MaxFiles}
NoAnswers == [q \in Questions |-> Empty]

\* unknown: request.POST holds a key question_<id> whose id is no question
\* of the questionnaire.  ResponseForm binds the fields it built from
\* self.questions and reads no other key, so the two form paths see raw only.
Request(entry, raw, files, instance, unknown) ==
    [entry |-> entry, raw |-> raw, files |-> files, instance |-> instance,
     unknown |-> unknown]

\* outcome: PERSISTED (success answered), REJECTED (validation errors
\* answered), ERROR (an exception ended the request).  validated: is_valid()
\* ran on the submission and returned True.  response: the Response row the
\* request wrote, if any.
Result(outcome, errs, validated, response) ==
    [outcome |-> outcome, errors |-> errs, validated |-> validated,
     response |-> response]

\* Faulty variant of questionnaire_start: the Response saved before is_valid() is asked.
questionnaire_start_saves_first(raw) ==
    /\ NextResponseId \in ResponseIds
    /\ responses' = responses \cup {NextResponseId}
    /\ result' = IF is_valid(raw) THEN Result("ERROR", {}, TRUE, NextResponseId)
                 ELSE Result("REJECTED", errors(raw), FALSE, NoResponse)
    /\ request' = Request("questionnaire_start", raw, <<>>, NoResponse, FALSE)
    /\ UNCHANGED <<answers, config, elsewhere>>

\* questionnaire_start, POST: is_valid(), form.save(commit=False),
\* response.save(), then form.save_answers() without its argument, which
\* raises TypeError after the Response row is committed.  An invalid form
\* writes nothing and the errors go back to the caller.
questionnaire_start(raw) ==
    /\ IF is_valid(raw)
       THEN /\ NextResponseId \in ResponseIds
            /\ responses' = responses \cup {NextResponseId}
            /\ result' = Result("ERROR", {}, TRUE, NextResponseId)
       ELSE /\ responses' = responses
            /\ result' = Result("REJECTED", errors(raw), FALSE, NoResponse)
    /\ request' = Request("questionnaire_start", raw, <<>>, NoResponse, FALSE)
    /\ UNCHANGED <<answers, config, elsewhere>>

\* ResponseForm(questionnaire, data, instance=...).save(): ModelForm.save
\* raises ValueError when the form has errors; otherwise response.save()
\* (INSERT, or UPDATE of the instance) and save_answers(response).
ResponseForm_save(raw, instance) ==
    /\ IF is_valid(raw)
       THEN LET r == IF instance = NoResponse THEN NextResponseId ELSE instance
            IN /\ r \in ResponseIds
               /\ responses' = responses \cup {r}
               /\ answers' = save_answers(answers, r, cleaned_data(raw), 1)
               /\ result' = Result("PERSISTED", {}, TRUE, r)
       ELSE /\ UNCHANGED <<responses, answers>>
            /\ result' = Result("REJECTED", errors(raw), FALSE, NoResponse)
    /\ request' = Request("ResponseForm_save", raw, <<>>, instance, FALSE)
    /\ UNCHANGED <<config, elsewhere>>

\* The TYPE_ constants class Question defines: TYPE_ATTACHMENT and
\* TYPE_MULTIPLE_CHOICE, which api_submit_questionnaire reads, are not among them.
QuestionTypeAttrs == {"TYPE_TEXT", "TYPE_TEXTAREA", "TYPE_RADIO", "TYPE_CHECKBOX",
                      "TYPE_SELECT", "TYPE_RATING", "TYPE_DATE", "TYPE_EMAIL",
                      "TYPE_NUMBER", "TYPE_FILE"}

\* The loop of api_submit_questionnaire over request.POST; gives whether it
\* raised.  The key of an unknown question: questions.get raises DoesNotExist,
\* caught, continue.  The first key of a known question evaluates
\* question.TYPE_ATTACHMENT: AttributeError, which the inner except lets through.
api_post_loop(raw, unknown) ==
    "TYPE_ATTACHMENT" \notin QuestionTypeAttrs
        /\ \E q \in question_rows : raw[q] # Empty

\* Faulty variant of api_files_loop: the key of an unknown question ends the request.
RECURSIVE api_files_loop_unknown_raises(_, _, _, _)
api_files_loop_unknown_raises(tbl, r, files, i) ==
    IF i > Len(files) THEN [tbl |-> tbl, raised |-> FALSE]
    ELSE IF files[i] \notin question_rows THEN [tbl |-> tbl, raised |-> TRUE]
    ELSE IF UniqueViolation(tbl, r, files[i]) THEN [tbl |-> tbl, raised |-> TRUE]
    ELSE api_files_loop_unknown_raises(
             InsertRow(tbl, AnswerRow(r, files[i], Empty, {}, "file")), r, files, i + 1)

\* The loop of api_submit_questionnaire over request.FILES, from key i on:
\* key attachment_<id>; an unknown question is skipped, a known one gets
\* Answer.objects.create(file_answer=...).  Gives the table and whether a
\* create raised IntegrityError (which ends the request).
RECURSIVE api_files_loop(_, _, _, _)
api_files_loop(tbl, r, files, i) ==
    IF i > Len(files) THEN [tbl |-> tbl, raised |-> FALSE]
    ELSE IF files[i] \notin question_rows THEN api_files_loop(tbl, r, files, i + 1)
    ELSE IF UniqueViolation(tbl, r, files[i]) THEN [tbl |-> tbl, raised |-> TRUE]
    ELSE api_files_loop(InsertRow(tbl, AnswerRow(r, files[i], Empty, {}, "file")),
                        r, files, i + 1)

\* api_submit_questionnaire: Response.objects.create first, with no
\* validation; then the loop over request.POST (raw: the question_<id> keys
\* sent, Empty standing for a key that is not sent), which on the first key
\* of a known question evaluates question.TYPE_ATTACHMENT: AttributeError,
\* caught by the outer except (HTTP 500); then the loop over request.FILES.
api_submit_questionnaire(raw, files, unknown) ==
    /\ NextResponseId \in ResponseIds
    /\ request' = Request("api_submit_questionnaire", raw, files, NoResponse, unknown)
    /\ responses' = responses \cup {NextResponseId}
    /\ IF api_post_loop(raw, unknown)
       THEN /\ answers' = answers
            /\ result' = Result("ERROR", {}, FALSE, NextResponseId)
       ELSE LET out == api_files_loop(answers, NextResponseId, files, 1)
            IN /\ answers' = out.tbl
               /\ result' = Result(IF out.raised THEN "ERROR" ELSE "PERSISTED",
                                   {}, FALSE, NextResponseId)
    /\ UNCHANGED <<config, elsewhere>>

\* --------------------------------------------------------------- Patient
\* A patient_id "MDCP0012" is kept as the digits after the prefix, <<0,0,1,2>>.
PatientIdDigits == 4

RECURSIVE DecimalDigits(_)
DecimalDigits(n) ==
    IF n < 10 THEN <<n>> ELSE Append(DecimalDigits(n \div 10), n % 10)

RECURSIVE ZeroPad(_, _)
ZeroPad(s, width) == IF Len(s) >= width THEN s ELSE ZeroPad(<<0>> \o s, width)

\* f"MDCP{new_number:04d}"
format_patient_id(n) == ZeroPad(DecimalDigits(n), PatientIdDigits)

\* int(re.search(r'(\d+)', last_patient).group(1))
RECURSIVE int(_)
int(s) == IF s = <<>> THEN 0 ELSE 10 * int(SubSeq(s, 1, Len(s) - 1)) + s[Len(s)]

\* s <= t as the database compares two strings: character by character,
\* a proper prefix before the longer string.
RECURSIVE StringLeq(_, _)
StringLeq(s, t) ==
    IF s = <<>> THEN TRUE
    ELSE IF t = <<>> THEN FALSE
    ELSE IF Head(s) # Head(t) THEN Head(s) < Head(t)
    ELSE StringLeq(Tail(s), Tail(t))

\* Patient.objects.aggregate(Max('patient_id')) on a table with rows.
Max(tbl) == CHOOSE s \in tbl : \A t \in tbl : StringLeq(t, s)

\* Patient.generate_patient_id
generate_patient_id ==
    IF patients = {} THEN format_patient_id(1)
    ELSE format_patient_id(int(Max(patients)) + 1)

PatientResult(outcome, patient_id) == [outcome |-> outcome, patient_id |-> patient_id]

\* PatientCreateView: Patient.save() of a new patient.  patient_id is empty,
\* so it is generated; the INSERT raises IntegrityError when a row holds
\* the same patient_id (unique=True).
PatientCreateView ==
    /\ patient_saves < MaxPatientSaves
    /\ patient_saves' = patient_saves + 1
    /\ IF generate_patient_id \in patients
       THEN /\ patients' = patients
            /\ patient_result' = PatientResult("IntegrityError", generate_patient_id)
       ELSE /\ patients' = patients \cup {generate_patient_id}
            /\ patient_result' = PatientResult("saved", generate_patient_id)
    /\ UNCHANGED <<config, responses, answers, request, result, questionnaires, proc,
                   screening_vars>>

\* PatientDeleteView.  ScreeningSession.patient is on_delete=CASCADE: the
\* sessions of the patient go with it.
PatientDeleteView(id) ==
    /\ id \in patients
    /\ patients' = patients \ {id}
    /\ patient_result' = PatientResult("deleted", id)
    /\ sessions' = [s \in {t \in DOMAIN sessions : sessions[t].patient # id} |->
                        sessions[s]]
    /\ UNCHANGED <<config, responses, answers, request, result, patient_saves,
                   questionnaires, proc, last_session_pk, devices, screening, starting>>

\* ----------------------------------------------------- QuestionUpdateView
\* The (depends_on_question, depends_on_value) pairs a staff user posts: no
\* dependency, or any question of the questionnaire with a trigger value.
DependencyInputs ==
    {<<NoParent, NoValue>>} \cup ((Questions) \X {"yes", "no"})

\* A Question row of another questionnaire: the depends_on_question field of
\* QuestionForm offers every Question when the view passes no questionnaire_id.
OtherQuestion == NumQuestions + 1

\* Every pair the form can be posted with: any question or none, of this
\* questionnaire or not, with a trigger value or with the field left blank.
AnyDependencyInputs ==
    (Questions \cup {NoParent, OtherQuestion}) \X {"yes", "no", NoValue}

\* Faulty variant of QuestionUpdateView: clean without the questionnaire check.
QuestionUpdateView_unchecked(q, p, t) ==
    /\ depends_on_question' = [depends_on_question EXCEPT ![q] = p]
    /\ depends_on_value' = [depends_on_value EXCEPT ![q] = t]
    /\ UNCHANGED <<question_rows, is_required, question_type, options, responses,
                   answers, request, result, elsewhere>>

\* QuestionUpdateView with QuestionForm, the other fields posted back as they
\* are: QuestionForm.clean only asks that depends_on_question belongs to the
\* questionnaire of the instance (ValidationError otherwise, nothing saved;
\* a deleted question is no choice of the field and has no page to edit),
\* then form.save() updates the row.  Nothing compares p with q, walks the
\* chain from p or asks for a trigger value.
QuestionUpdateView(q, p, t) ==
    /\ IF q \notin question_rows \/ p \notin question_rows \cup {NoParent}
       THEN UNCHANGED <<depends_on_question, depends_on_value>>
       ELSE /\ depends_on_question' = [depends_on_question EXCEPT ![q] = p]
            /\ depends_on_value' = [depends_on_value EXCEPT ![q] = t]
    /\ UNCHANGED <<question_rows, is_required, question_type, options, responses,
                   answers, request, result, elsewhere>>

\* QuestionCreateView: the instance has no questionnaire while the form
\* validates, so QuestionForm.clean skips its check; form_valid then orders
\* the questions by '-order', a field class Question does not have
\* (display_order): FieldError, and no row is saved.
QuestionCreateView(p, t) ==
    /\ request' = Request("QuestionCreateView", NoAnswers, <<>>, NoResponse, FALSE)
    /\ result' = Result("ERROR", {}, TRUE, NoResponse)
    /\ UNCHANGED <<config, responses, answers, elsewhere>>

\* ----------------------------- ResponseForm.save in concurrent requests
\* Each request runs in its own worker with the database in autocommit mode;
\* a worker is interleaved with the others between two database statements.
\* proc[p]: where request p stands in save_answers, the data it posted, the
\* Response it saves to, the question its loop is at and the Answer instance
\* it holds in memory.
Procs == 1..NumProcs

Idle == [pc |-> "idle", raw |-> NoAnswers, response |-> NoResponse, q |-> 0,
         answer |-> NoValue]

\* The next question of the loop after question q, 0 when the loop is over.
NextQuestion(cleaned, q) ==
    IF \E x \in DOMAIN cleaned : x > q
    THEN CHOOSE x \in DOMAIN cleaned : x > q /\ \A y \in DOMAIN cleaned : y > q => x <= y
    ELSE 0

\* The committed Answer row of request p's current question.
CurrentRow(p) == CHOOSE a \in RowsOf(answers, proc[p].response, proc[p].q) : TRUE

\* form.is_valid(), form.save(commit=False), response.save() on the instance:
\* the loop of save_answers starts.
save_begin(p, raw, r) ==
    /\ proc[p].pc = "idle"
    /\ r \in responses
    /\ is_valid(raw)
    /\ LET first == NextQuestion(cleaned_data(raw), 0)
       IN proc' = [proc EXCEPT ![p] =
                      [pc |-> IF first = 0 THEN "done" ELSE "get_or_create",
                       raw |-> raw, response |-> r, q |-> first, answer |-> NoValue]]
    /\ UNCHANGED <<config, responses, answers, request, result, patient_vars,
                   questionnaires, screening_vars>>

\* Answer.objects.get_or_create(response, question, defaults={'text_answer': ''})
save_get_or_create(p) ==
    /\ proc[p].pc = "get_or_create"
    /\ LET r == proc[p].response
           q == proc[p].q
           fresh == AnswerRow(r, q, Empty, {}, NoValue)
       IN IF RowsOf(answers, r, q) = {}
          THEN /\ answers' = InsertRow(answers, fresh)
               /\ proc' = [proc EXCEPT ![p].pc = "clear", ![p].answer = fresh]
          ELSE /\ answers' = answers
               /\ proc' = [proc EXCEPT ![p].pc = "clear", ![p].answer = CurrentRow(p)]
    /\ UNCHANGED <<config, responses, request, result, patient_vars, questionnaires,
                   screening_vars>>

\* answer.option_answer.clear(): DELETE on the many-to-many table, at once.
save_clear(p) ==
    /\ proc[p].pc = "clear"
    /\ LET q == proc[p].q
           value == proc[p].raw[q]
       IN /\ answers' = UpdateRow(answers, CurrentRow(p),
                                  [CurrentRow(p) EXCEPT !.option_answer = {}])
          /\ proc' = [proc EXCEPT ![p].pc =
                         IF question_type[q] = TYPE_RADIO /\ value # Empty
                                /\ value \in options[q]
                         THEN "add" ELSE "save"]
    /\ UNCHANGED <<config, responses, request, result, patient_vars, questionnaires,
                   screening_vars>>

\* answer.option_answer.add(opt): INSERT on the many-to-many table, at once.
save_add(p) ==
    /\ proc[p].pc = "add"
    /\ answers' = UpdateRow(answers, CurrentRow(p),
                            [CurrentRow(p) EXCEPT
                                !.option_answer = @ \cup {proc[p].raw[proc[p].q]}])
    /\ proc' = [proc EXCEPT ![p].pc = "save"]
    /\ UNCHANGED <<config, responses, request, result, patient_vars, questionnaires,
                   screening_vars>>

\* answer.save(): UPDATE of the columns of the Answer row from the instance
\* in memory, whose text, number and date were reset and set by type.
save_answer_save(p) ==
    /\ proc[p].pc = "save"
    /\ LET q == proc[p].q
           value == proc[p].raw[q]
           next == NextQuestion(cleaned_data(proc[p].raw), q)
       IN /\ answers' = UpdateRow(answers, CurrentRow(p),
                              [CurrentRow(p) EXCEPT
                                  !.text_answer = IF question_type[q] = TYPE_RADIO
                                                  THEN Empty ELSE value,
                                  !.number_answer = NoValue,
                                  !.date_answer = NoValue,
                                  !.file_answer = proc[p].answer.file_answer])
          /\ proc' = [proc EXCEPT ![p].pc = IF next = 0 THEN "done" ELSE "get_or_create",
                                  ![p].q = next, ![p].answer = NoValue]
    /\ UNCHANGED <<config, responses, request, result, patient_vars, questionnaires,
                   screening_vars>>

\* ---------------------------------------------------------- deletions
\* The Answer rows of table tbl that satisfy none of: being of question q,
\* being of response r (on_delete=CASCADE on Answer.question and
\* Answer.response).
RECURSIVE Cascade(_, _, _)
Cascade(tbl, qs, rs) ==
    LET gone == {a \in BagToSet(tbl) : a.question \in qs \/ a.response \in rs}
    IN IF gone = {} THEN tbl
       ELSE LET a == CHOOSE x \in gone : TRUE
            IN Cascade(tbl (-) SetToBag({a}), qs, rs)

\* The Question rows qs deleted: their Answer and QuestionOption rows go
\* with them (CASCADE), the questions that depended on them lose their
\* parent (SET_NULL) and keep their trigger value.
DeleteQuestions(qs) ==
    /\ question_rows' = question_rows \ qs
    /\ answers' = Cascade(answers, qs, {})
    /\ options' = [q \in Questions |-> IF q \in qs THEN {} ELSE options[q]]
    /\ depends_on_question' =
          [q \in Questions |->
              IF q \in qs \/ depends_on_question[q] \in qs
              THEN NoParent ELSE depends_on_question[q]]
    /\ depends_on_value' =
          [q \in Questions |-> IF q \in qs THEN NoValue ELSE depends_on_value[q]]

\* QuestionDeleteView
QuestionDeleteView(q) ==
    /\ q \in question_rows
    /\ DeleteQuestions({q})
    /\ UNCHANGED <<is_required, question_type, responses, request, result, elsewhere>>

\* ResponseDeleteView
ResponseDeleteView(r) ==
    /\ r \in responses
    /\ responses' = responses \ {r}
    /\ answers' = Cascade(answers, {}, {r})
    /\ UNCHANGED <<config, request, result, elsewhere>>

\* -------------------------------------------------------------- builder
\* The JSON bodies posted to the builder views: without a title, without
\* the questions key, with an empty list of questions, with a question that
\* lacks its text, and with every key the views read.
BuilderPayloads == {"no_title", "no_questions", "empty_questions",
                    "question_without_text", "complete"}

\* edit_questionnaire_builder, POST.  data['title'] raises KeyError before
\* anything is written.  Otherwise the questionnaire is saved and every
\* Question of it deleted; then data['questions'] is read (KeyError when
\* absent) and the first Question.objects.create is given question_text and
\* order, fields class Question does not have (text, display_order):
\* TypeError.  The except clause answers success false; nothing is undone.
edit_questionnaire_builder(payload) ==
    /\ request' = Request("edit_questionnaire_builder", NoAnswers, <<>>, NoResponse, FALSE)
    /\ IF payload = "no_title"
       THEN /\ UNCHANGED <<question_rows, answers, options, depends_on_question,
                           depends_on_value>>
            /\ result' = Result("ERROR", {}, FALSE, NoResponse)
       ELSE /\ DeleteQuestions(question_rows)
            /\ result' = Result(IF payload = "empty_questions" THEN "PERSISTED"
                                ELSE "ERROR", {}, FALSE, NoResponse)
    /\ UNCHANGED <<is_required, question_type, responses, elsewhere>>

\* save_questionnaire_api.  The body is checked first (title, a non-empty
\* list of questions, each with question_text and type): HTTP 400 and
\* nothing written.  Then Questionnaire.objects.create, and the first
\* Question.objects.create raises TypeError as above; the except clause
\* answers success false with the Questionnaire row committed.
save_questionnaire_api(payload) ==
    /\ request' = Request("save_questionnaire_api", NoAnswers, <<>>, NoResponse, FALSE)
    /\ IF payload = "complete"
       THEN /\ questionnaires < MaxQuestionnaires
            /\ questionnaires' = questionnaires + 1
            /\ result' = Result("ERROR", {}, TRUE, NoResponse)
       ELSE /\ questionnaires' = questionnaires
            /\ result' = Result("REJECTED", {}, FALSE, NoResponse)
    /\ UNCHANGED <<config, responses, answers, patient_vars, proc, screening_vars>>

\* ------------------------------------------------- Display-Number Assigner
\* Question.get_display_number is called by views_builder.py, views.py and
\* test_branching.py and defined in no file of the repository at hand; it is
\* written here after section 4.2 of the specification.  A display number
\* "1.2" is the sequence <<1, 2>>.  Sibling order is the order of the ids.
RECURSIVE SortedSeq(_)
SortedSeq(S) ==
    IF S = {} THEN <<>>
    ELSE LET m == CHOOSE x \in S : \A y \in S : x <= y
         IN <<m>> \o SortedSeq(S \ {m})

\* children(question): the direct dependents in sibling order.
children(p) == SortedSeq({c \in question_rows : depends_on_question[c] = p})

\* roots(): the questions with no parent, in sibling order.
roots == children(NoParent)

\* Faulty variant of AssignNumbers: a question numbered by its position among all the
\* questions of the questionnaire instead of among its siblings.
RECURSIVE AssignNumbers_by_order(_, _, _)
AssignNumbers_by_order(prefix, sibs, i) ==
    IF i > Len(sibs) THEN {}
    ELSE LET num == Append(prefix, sibs[i])
         IN {<<sibs[i], num>>}
            \cup AssignNumbers_by_order(num, children(sibs[i]), 1)
            \cup AssignNumbers_by_order(prefix, sibs, i + 1)

\* Faulty variant of AssignNumbers: the child index counted within the children that
\* share the trigger value.
RECURSIVE AssignNumbers_index_per_trigger(_, _, _)
AssignNumbers_index_per_trigger(prefix, sibs, i) ==
    IF i > Len(sibs) THEN {}
    ELSE LET idx == Cardinality({j \in 1..i :
                        depends_on_value[sibs[j]] = depends_on_value[sibs[i]]})
             num == Append(prefix, idx)
         IN {<<sibs[i], num>>}
            \cup AssignNumbers_index_per_trigger(num, children(sibs[i]), 1)
            \cup AssignNumbers_index_per_trigger(prefix, sibs, i + 1)

\* Depth-first pre-order traversal from sibling i of sibs on: the sibling
\* gets prefix.i, its children are numbered under it, then the next sibling.
\* Gives the pairs <<question, number>>.
RECURSIVE AssignNumbers(_, _, _)
AssignNumbers(prefix, sibs, i) ==
    IF i > Len(sibs) THEN {}
    ELSE LET num == Append(prefix, i)
         IN {<<sibs[i], num>>}
            \cup AssignNumbers(num, children(sibs[i]), 1)
            \cup AssignNumbers(prefix, sibs, i + 1)

\* The numbering of the whole forest, from the roots.
display_numbers == AssignNumbers(<<>>, roots, 1)

\* question.get_display_number(), for a question the traversal reaches.
get_display_number(q) == (CHOOSE d \in display_numbers : d[1] = q)[2]

\* ------------------------------------------------------ screening sessions
SessionIds == 1..NumSessions
DeviceIds == 1..NumDevices
NoDevice == 0

STATUS_SCHEDULED == "scheduled"
STATUS_IN_PROGRESS == "in_progress"
STATUS_COMPLETED == "completed"
STATUS_CANCELLED == "cancelled"

\* Everything the requests on screening sessions leave alone.
outside_screening ==
    <<config, responses, answers, request, result, patient_vars, questionnaires, proc>>

\* str(session.pk), the form in which Device.locked_session_id names a session
str(n) == DecimalDigits(n)

\* A new ScreeningSession row as ScreeningSessionForm.save stores it: status
\* takes its default, consented_at is stamped when consent is obtained.  The
\* date-times are kept as set (TRUE) or NULL (FALSE), conducted_by likewise.
SessionRow(patient, device, consent) ==
    [patient |-> patient, status |-> STATUS_SCHEDULED, device_used |-> device,
     consent_obtained |-> consent, consented_at |-> consent,
     actual_start_time |-> FALSE, actual_end_time |-> FALSE, conducted_by |-> FALSE]

\* The lock fields of a Device row: their defaults, and as start_screening
\* sets them.
Unlocked == [is_locked |-> FALSE, is_busy |-> FALSE, locked_session_id |-> <<>>]

LockedBy(pk) == [is_locked |-> TRUE, is_busy |-> TRUE, locked_session_id |-> str(pk)]

ScreeningRequest(view, pk, message, device_saved) ==
    [view |-> view, pk |-> pk, message |-> message, device_saved |-> device_saved]

can_start(session) == session.status = STATUS_SCHEDULED

\* Faulty variant of can_complete: a scheduled session may be completed too.
can_complete_before_start(session) ==
    session.status \in {STATUS_SCHEDULED, STATUS_IN_PROGRESS}

can_complete(session) == session.status = STATUS_IN_PROGRESS

\* Faulty variant of StartRefusal: consent is not asked for.
StartRefusal_without_consent(session) ==
    IF ~can_start(session) THEN "cannot_start" ELSE "ok"

\* start_screening, the checks on the session: the message of the refusal,
\* or "ok".
StartRefusal(session) ==
    IF ~can_start(session) THEN "cannot_start"
    ELSE IF ~session.consent_obtained THEN "consent_required"
    ELSE "ok"

\* start_screening, the checks on the device of the session.
DeviceRefusal(device, pk) ==
    IF /\ device.is_locked
       /\ device.locked_session_id # <<>>
       /\ device.locked_session_id # str(pk)
    THEN "device_locked"
    ELSE IF /\ device.is_busy
            /\ device.locked_session_id # <<>>
            /\ device.locked_session_id # str(pk)
    THEN "device_busy"
    ELSE "ok"

\* start_screening, the fields it sets on the session before session.save()
Started(session) ==
    [session EXCEPT !.status = STATUS_IN_PROGRESS,
                    !.actual_start_time = TRUE,
                    !.conducted_by = TRUE]

\* The whole row session.save() writes: an UPDATE of the row with this
\* primary key, an INSERT when there is none any more.
SaveSession(tbl, pk, session) ==
    [s \in DOMAIN tbl \cup {pk} |-> IF s = pk THEN session ELSE tbl[s]]

start_screening(pk) ==
    /\ pk \in DOMAIN sessions
    /\ LET session == sessions[pk]
           d == session.device_used
       IN  IF StartRefusal(session) # "ok"
           THEN /\ screening' = ScreeningRequest("start_screening", pk,
                                                 StartRefusal(session), FALSE)
                /\ UNCHANGED <<sessions, devices>>
           ELSE IF d # NoDevice /\ DeviceRefusal(devices[d], pk) # "ok"
           THEN /\ screening' = ScreeningRequest("start_screening", pk,
                                                 DeviceRefusal(devices[d], pk), FALSE)
                /\ UNCHANGED <<sessions, devices>>
           ELSE /\ devices' = IF d # NoDevice
                              THEN [devices EXCEPT ![d] = LockedBy(pk)]
                              ELSE devices
                /\ sessions' = SaveSession(sessions, pk, Started(session))
                /\ screening' = ScreeningRequest("start_screening", pk, "started",
                                                 d # NoDevice)
    /\ UNCHANGED <<last_session_pk, starting, outside_screening>>

\* "if device.locked_session_id == str(session.pk)" of complete_screening
\* and cancel_screening
HoldsLock(devs, session, pk) ==
    /\ session.device_used # NoDevice
    /\ devs[session.device_used].locked_session_id = str(pk)

\* Faulty variant of Release: the device of the session is unlocked whoever
\* holds the lock.
Release_any_holder(devs, session, pk) ==
    IF session.device_used # NoDevice
    THEN [devs EXCEPT ![session.device_used] = Unlocked]
    ELSE devs

\* The unlocking of complete_screening and cancel_screening
Release(devs, session, pk) ==
    IF HoldsLock(devs, session, pk)
    THEN [devs EXCEPT ![session.device_used] = Unlocked]
    ELSE devs

complete_screening(pk) ==
    /\ pk \in DOMAIN sessions
    /\ LET session == sessions[pk]
       IN  IF ~can_complete(session)
           THEN /\ screening' = ScreeningRequest("complete_screening", pk,
                                                 "cannot_complete", FALSE)
                /\ UNCHANGED <<sessions, devices>>
           ELSE /\ sessions' = SaveSession(sessions, pk,
                                   [session EXCEPT !.status = STATUS_COMPLETED,
                                                   !.actual_end_time = TRUE])
                /\ devices' = Release(devices, session, pk)
                /\ screening' = ScreeningRequest("complete_screening", pk, "completed",
                                                 HoldsLock(devices, session, pk))
    /\ UNCHANGED <<last_session_pk, starting, outside_screening>>

cancel_screening(pk) ==
    /\ pk \in DOMAIN sessions
    /\ LET session == sessions[pk]
       IN  IF session.status \notin {STATUS_SCHEDULED, STATUS_IN_PROGRESS}
           THEN /\ screening' = ScreeningRequest("cancel_screening", pk,
                                                 "cannot_cancel", FALSE)
                /\ UNCHANGED <<sessions, devices>>
           ELSE /\ sessions' = SaveSession(sessions, pk,
                                   [session EXCEPT !.status = STATUS_CANCELLED])
                /\ devices' = Release(devices, session, pk)
                /\ screening' = ScreeningRequest("cancel_screening", pk, "cancelled",
                                                 HoldsLock(devices, session, pk))
    /\ UNCHANGED <<last_session_pk, starting, outside_screening>>

\* ScreeningSessionCreateView with ScreeningSessionForm: the form is invalid
\* when the scheduled date is in the past; device_used may be left empty.
ScreeningSessionCreateView(patient, device, consent, valid) ==
    /\ last_session_pk < NumSessions
    /\ patient \in patients
    /\ IF ~valid
       THEN /\ screening' = ScreeningRequest("ScreeningSessionCreateView", 0,
                                             "invalid", FALSE)
            /\ UNCHANGED <<sessions, last_session_pk>>
       ELSE /\ sessions' = SaveSession(sessions, last_session_pk + 1,
                                       SessionRow(patient, device, consent))
            /\ last_session_pk' = last_session_pk + 1
            /\ screening' = ScreeningRequest("ScreeningSessionCreateView",
                                             last_session_pk + 1, "created", FALSE)
    /\ UNCHANGED <<devices, starting, outside_screening>>

\* ScreeningSessionUpdateView with the same form: patient, device_used and
\* consent_obtained are among Meta.fields, status is not.
ScreeningSessionUpdateView(pk, patient, device, consent, valid) ==
    /\ pk \in DOMAIN sessions
    /\ patient \in patients
    /\ IF ~valid
       THEN /\ screening' = ScreeningRequest("ScreeningSessionUpdateView", pk,
                                             "invalid", FALSE)
            /\ UNCHANGED sessions
       ELSE /\ sessions' = SaveSession(sessions, pk,
                               [sessions[pk] EXCEPT !.patient = patient,
                                                    !.device_used = device,
                                                    !.consent_obtained = consent,
                                                    !.consented_at = @ \/ consent])
            /\ screening' = ScreeningRequest("ScreeningSessionUpdateView", pk,
                                             "updated", FALSE)
    /\ UNCHANGED <<last_session_pk, devices, starting, outside_screening>>

\* ScreeningSessionDeleteView: staff only (test_func); the row is deleted,
\* no Device row is touched.
ScreeningSessionDeleteView(pk, is_staff) ==
    /\ pk \in DOMAIN sessions
    /\ IF ~is_staff
       THEN /\ screening' = ScreeningRequest("ScreeningSessionDeleteView", pk,
                                             "forbidden", FALSE)
            /\ UNCHANGED sessions
       ELSE /\ sessions' = [s \in DOMAIN sessions \ {pk} |-> sessions[s]]
            /\ screening' = ScreeningRequest("ScreeningSessionDeleteView", pk,
                                             "deleted", FALSE)
    /\ UNCHANGED <<last_session_pk, devices, starting, outside_screening>>

\* ------------------------------------- start_screening, statement by statement
\* Two requests run start_screening at the same time.  Each holds its own
\* copy of the session row; the view opens no transaction and takes no row
\* lock, so the statements of the two requests interleave.
NotStarting ==
    [pc |-> "idle", pk |-> 0, session |-> SessionRow(<<>>, NoDevice, FALSE)]

\* get_object_or_404(ScreeningSession, pk=pk) and the checks on the copy
start_get_object(p, pk) ==
    /\ starting[p].pc = "idle"
    /\ pk \in DOMAIN sessions
    /\ LET session == sessions[pk]
       IN  IF StartRefusal(session) # "ok"
           THEN /\ screening' = ScreeningRequest("start_screening", pk,
                                                 StartRefusal(session), FALSE)
                /\ UNCHANGED starting
           ELSE /\ starting' = [starting EXCEPT ![p] =
                                   [pc |-> IF session.device_used = NoDevice
                                           THEN "session_save" ELSE "device_used",
                                    pk |-> pk, session |-> session]]
                /\ UNCHANGED screening
    /\ UNCHANGED <<sessions, last_session_pk, devices, outside_screening>>

\* session.device_used: the Device row is read, then checked
start_device_used(p) ==
    /\ starting[p].pc = "device_used"
    /\ LET pk == starting[p].pk
           device == devices[starting[p].session.device_used]
       IN  IF DeviceRefusal(device, pk) # "ok"
           THEN /\ screening' = ScreeningRequest("start_screening", pk,
                                                 DeviceRefusal(device, pk), FALSE)
                /\ starting' = [starting EXCEPT ![p] = NotStarting]
           ELSE /\ starting' = [starting EXCEPT ![p].pc = "device_save"]
                /\ UNCHANGED screening
    /\ UNCHANGED <<sessions, last_session_pk, devices, outside_screening>>

\* device.save(update_fields=['is_locked', 'is_busy', 'locked_session_id'])
start_device_save(p) ==
    /\ starting[p].pc = "device_save"
    /\ devices' = [devices EXCEPT ![starting[p].session.device_used] =
                      LockedBy(starting[p].pk)]
    /\ starting' = [starting EXCEPT ![p].pc = "session_save"]
    /\ UNCHANGED <<sessions, last_session_pk, screening, outside_screening>>

\* session.save() of the copy, with the fields start_screening set on it
start_session_save(p) ==
    /\ starting[p].pc = "session_save"
    /\ sessions' = SaveSession(sessions, starting[p].pk, Started(starting[p].session))
    /\ screening' = ScreeningRequest("start_screening", starting[p].pk, "started",
                                     starting[p].session.device_used # NoDevice)
    /\ starting' = [starting EXCEPT ![p] = NotStarting]
    /\ UNCHANGED <<last_session_pk, devices, outside_screening>>

\* No screening session yet, every device free.
NoScreening ==
    /\ sessions = <<>>
    /\ last_session_pk = 0
    /\ devices = [d \in DeviceIds |-> Unlocked]
    /\ screening = ScreeningRequest("none", 0, "none", FALSE)
    /\ starting = [p \in Procs |-> NotStarting]

\* ------------------------------------------------------------------ Init
\* The questionnaire: a forest of Question rows.  A question depends on
\* none or on an earlier question, with a trigger value when it does; a
\* question others depend on is a yes/no radio question, the others are
\* text questions.
Forest(p, t) ==
    \A q \in Questions :
        /\ p[q] < q
        /\ (p[q] = NoParent) <=> (t[q] = NoValue)

HasDependents(p, q) == \E c \in Questions : p[c] = q

Init ==
    /\ question_rows = Questions
    /\ depends_on_question \in [Questions -> Questions \cup {NoParent}]
    /\ depends_on_value \in [Questions -> {"yes", "no", NoValue}]
    /\ Forest(depends_on_question, depends_on_value)
    /\ is_required \in [Questions -> BOOLEAN]
    /\ question_type = [q \in Questions |->
                           IF HasDependents(depends_on_question, q)
                           THEN TYPE_RADIO ELSE TYPE_TEXT]
    /\ options = [q \in Questions |->
                     IF HasDependents(depends_on_question, q)
                     THEN {"yes", "no"} ELSE {}]
    /\ responses = {}
    /\ answers = EmptyBag
    /\ request = Request("none", NoAnswers, <<>>, NoResponse, FALSE)
    /\ result = Result("none", {}, FALSE, NoResponse)
    /\ patients = {}
    /\ patient_result = PatientResult("none", <<>>)
    /\ patient_saves = 0
    /\ questionnaires = 0
    /\ proc = [p \in Procs |-> Idle]
    /\ NoScreening

Next ==
    \/ \E raw \in RawMaps : questionnaire_start(raw)
    \/ \E raw \in RawMaps, instance \in responses \cup {NoResponse} :
          ResponseForm_save(raw, instance)
    \/ /\ NextResponseId \in ResponseIds
       /\ \E raw \in RawMaps, files \in FileKeys, unknown \in BOOLEAN :
             api_submit_questionnaire(raw, files, unknown)
    \/ \E q \in Questions, d \in AnyDependencyInputs : QuestionUpdateView(q, d[1], d[2])
    \/ \E d \in AnyDependencyInputs : QuestionCreateView(d[1], d[2])
    \/ PatientCreateView
    \/ \E id \in patients : PatientDeleteView(id)
    \/ \E q \in question_rows : QuestionDeleteView(q)
    \/ \E r \in responses : ResponseDeleteView(r)
    \/ \E payload \in BuilderPayloads : edit_questionnaire_builder(payload)
    \/ \E payload \in BuilderPayloads : save_questionnaire_api(payload)
    \/ \E p \in Procs, raw \in RawMaps, r \in responses : save_begin(p, raw, r)
    \/ \E p \in Procs : save_get_or_create(p)
    \/ \E p \in Procs : save_clear(p)
    \/ \E p \in Procs : save_add(p)
    \/ \E p \in Procs : save_answer_save(p)
    \/ \E patient \in patients, device \in DeviceIds \cup {NoDevice},
          consent \in BOOLEAN, valid \in BOOLEAN :
          ScreeningSessionCreateView(patient, device, consent, valid)
    \/ \E pk \in SessionIds, patient \in patients, device \in DeviceIds \cup {NoDevice},
          consent \in BOOLEAN, valid \in BOOLEAN :
          ScreeningSessionUpdateView(pk, patient, device, consent, valid)
    \/ \E pk \in SessionIds, is_staff \in BOOLEAN : ScreeningSessionDeleteView(pk, is_staff)
    \/ \E pk \in SessionIds : start_screening(pk)
    \/ \E pk \in SessionIds : complete_screening(pk)
    \/ \E pk \in SessionIds : cancel_screening(pk)
    \/ \E p \in Procs, pk \in SessionIds : start_get_object(p, pk)
    \/ \E p \in Procs : start_device_used(p)
    \/ \E p \in Procs : start_device_save(p)
    \/ \E p \in Procs : start_session_save(p)

Spec == Init /\ [][Next]_vars

\* The submissions that go through ResponseForm.
NextForm ==
    \/ \E raw \in RawMaps : questionnaire_start(raw)
    \/ \E raw \in RawMaps, instance \in responses \cup {NoResponse} :
          ResponseForm_save(raw, instance)

SpecForm == Init /\ [][NextForm]_vars

\* The submissions that go through the health assistant API, while the
\* primary keys of Response last.
NextApi ==
    /\ NextResponseId \in ResponseIds
    /\ \E raw \in RawMaps, files \in FileKeys, unknown \in BOOLEAN :
          api_submit_questionnaire(raw, files, unknown)

SpecApi == Init /\ [][NextApi]_vars

\* A questionnaire of independent questions, edited by staff and submitted
\* through questionnaire_start.
InitEdit ==
    /\ Init
    /\ \A q \in Questions : depends_on_question[q] = NoParent

NextEdit ==
    \/ \E q \in Questions, d \in DependencyInputs : QuestionUpdateView(q, d[1], d[2])
    \/ \E raw \in RawMaps : questionnaire_start(raw)

SpecEdit == InitEdit /\ [][NextEdit]_vars

\* A questionnaire of independent questions of either kind, a radio question
\* with its yes/no options or with no QuestionOption row at all, submitted
\* through questionnaire_start.
InitKinds ==
    /\ question_rows = Questions
    /\ depends_on_question = [q \in Questions |-> NoParent]
    /\ depends_on_value = [q \in Questions |-> NoValue]
    /\ is_required \in [Questions -> BOOLEAN]
    /\ question_type \in [Questions -> {TYPE_TEXT, TYPE_RADIO}]
    /\ options \in [Questions -> {{}, {"yes", "no"}}]
    /\ \A q \in Questions : question_type[q] = TYPE_TEXT => options[q] = {}
    /\ responses = {}
    /\ answers = EmptyBag
    /\ request = Request("none", NoAnswers, <<>>, NoResponse, FALSE)
    /\ result = Result("none", {}, FALSE, NoResponse)
    /\ patients = {}
    /\ patient_result = PatientResult("none", <<>>)
    /\ patient_saves = 0
    /\ questionnaires = 0
    /\ proc = [p \in Procs |-> Idle]
    /\ NoScreening

NextStart == \E raw \in RawMaps : questionnaire_start(raw)

SpecKinds == InitKinds /\ [][NextStart]_vars

\* The Patient table after years of use: the rows that creations and
\* deletions left, with the numbers handed out so far near the end of the
\* four-digit range or at its start; one questionnaire without dependencies.
PatientNumbersSoFar == {1, 2, 9998, 9999}

InitPatients ==
    /\ question_rows = Questions
    /\ depends_on_question = [q \in Questions |-> NoParent]
    /\ depends_on_value = [q \in Questions |-> NoValue]
    /\ is_required = [q \in Questions |-> TRUE]
    /\ question_type = [q \in Questions |-> TYPE_TEXT]
    /\ options = [q \in Questions |-> {}]
    /\ responses = {}
    /\ answers = EmptyBag
    /\ request = Request("none", NoAnswers, <<>>, NoResponse, FALSE)
    /\ result = Result("none", {}, FALSE, NoResponse)
    /\ patients \in SUBSET {format_patient_id(n) : n \in PatientNumbersSoFar}
    /\ patient_result = PatientResult("none", <<>>)
    /\ patient_saves = 0
    /\ questionnaires = 0
    /\ proc = [p \in Procs |-> Idle]
    /\ NoScreening

NextPatients ==
    \/ PatientCreateView
    \/ \E id \in patients : PatientDeleteView(id)

SpecPatients == InitPatients /\ [][NextPatients]_vars

\* A questionnaire of independent text and file-upload questions, submitted
\* through the health assistant API.
InitFiles ==
    /\ question_rows = Questions
    /\ depends_on_question = [q \in Questions |-> NoParent]
    /\ depends_on_value = [q \in Questions |-> NoValue]
    /\ is_required \in [Questions -> BOOLEAN]
    /\ question_type \in [Questions -> {TYPE_TEXT, TYPE_FILE}]
    /\ options = [q \in Questions |-> {}]
    /\ responses = {}
    /\ answers = EmptyBag
    /\ request = Request("none", NoAnswers, <<>>, NoResponse, FALSE)
    /\ result = Result("none", {}, FALSE, NoResponse)
    /\ patients = {}
    /\ patient_result = PatientResult("none", <<>>)
    /\ patient_saves = 0
    /\ questionnaires = 0
    /\ proc = [p \in Procs |-> Idle]
    /\ NoScreening

SpecApiFiles == InitFiles /\ [][NextApi]_vars

\* The questions of a questionnaire created and edited by staff.
NextQuestions ==
    \/ \E q \in Questions, d \in AnyDependencyInputs : QuestionUpdateView(q, d[1], d[2])
    \/ \E d \in AnyDependencyInputs : QuestionCreateView(d[1], d[2])

SpecQuestions == InitEdit /\ [][NextQuestions]_vars

\* A questionnaire of independent questions that is answered while staff
\* delete questions and responses and use the builder.
NextBuilder ==
    \/ \E raw \in RawMaps, instance \in responses \cup {NoResponse} :
          ResponseForm_save(raw, instance)
    \/ \E q \in question_rows : QuestionDeleteView(q)
    \/ \E r \in responses : ResponseDeleteView(r)
    \/ \E payload \in BuilderPayloads : edit_questionnaire_builder(payload)
    \/ \E payload \in BuilderPayloads : save_questionnaire_api(payload)

SpecBuilder == InitEdit /\ [][NextBuilder]_vars

\* Two requests that save to the Response a failed questionnaire_start left
\* behind: question 1 a required yes/no radio question, question 2 depending
\* on it, question 3 independent, all required.
InitConcurrent ==
    /\ question_rows = Questions
    /\ depends_on_question = [q \in Questions |-> IF q = 2 THEN 1 ELSE NoParent]
    /\ depends_on_value \in [Questions -> {"yes", "no", NoValue}]
    /\ Forest(depends_on_question, depends_on_value)
    /\ is_required = [q \in Questions |-> TRUE]
    /\ question_type = [q \in Questions |-> IF q = 1 THEN TYPE_RADIO ELSE TYPE_TEXT]
    /\ options = [q \in Questions |-> IF q = 1 THEN {"yes", "no"} ELSE {}]
    /\ responses = {1}
    /\ answers = EmptyBag
    /\ request = Request("questionnaire_start", [q \in Questions |-> "yes"], <<>>,
                         NoResponse, FALSE)
    /\ result = Result("ERROR", {}, TRUE, 1)
    /\ patients = {}
    /\ patient_result = PatientResult("none", <<>>)
    /\ patient_saves = 0
    /\ questionnaires = 0
    /\ proc = [p \in Procs |-> Idle]
    /\ NoScreening

NextConcurrent ==
    \/ \E p \in Procs, raw \in RawMaps, r \in responses : save_begin(p, raw, r)
    \/ \E p \in Procs : save_get_or_create(p)
    \/ \E p \in Procs : save_clear(p)
    \/ \E p \in Procs : save_add(p)
    \/ \E p \in Procs : save_answer_save(p)

SpecConcurrent == InitConcurrent /\ [][NextConcurrent]_vars

\* Screening sessions, one request at a time: one patient is registered, no
\* session is scheduled yet.
InitScreening ==
    /\ question_rows = Questions
    /\ depends_on_question = [q \in Questions |-> NoParent]
    /\ depends_on_value = [q \in Questions |-> NoValue]
    /\ is_required = [q \in Questions |-> TRUE]
    /\ question_type = [q \in Questions |-> TYPE_TEXT]
    /\ options = [q \in Questions |-> {}]
    /\ responses = {}
    /\ answers = EmptyBag
    /\ request = Request("none", NoAnswers, <<>>, NoResponse, FALSE)
    /\ result = Result("none", {}, FALSE, NoResponse)
    /\ patients = {format_patient_id(1)}
    /\ patient_result = PatientResult("saved", format_patient_id(1))
    /\ patient_saves = 1
    /\ questionnaires = 0
    /\ proc = [p \in Procs |-> Idle]
    /\ NoScreening

NextScreening ==
    \/ \E patient \in patients, device \in DeviceIds \cup {NoDevice},
          consent \in BOOLEAN, valid \in BOOLEAN :
          ScreeningSessionCreateView(patient, device, consent, valid)
    \/ \E pk \in SessionIds, patient \in patients, device \in DeviceIds \cup {NoDevice},
          consent \in BOOLEAN, valid \in BOOLEAN :
          ScreeningSessionUpdateView(pk, patient, device, consent, valid)
    \/ \E pk \in SessionIds, is_staff \in BOOLEAN : ScreeningSessionDeleteView(pk, is_staff)
    \/ \E pk \in SessionIds : start_screening(pk)
    \/ \E pk \in SessionIds : complete_screening(pk)
    \/ \E pk \in SessionIds : cancel_screening(pk)

SpecScreening == InitScreening /\ [][NextScreening]_vars

\* Two requests start screenings at the same time: every session is
\* scheduled, with any device and with or without consent.
InitStartRace ==
    /\ question_rows = Questions
    /\ depends_on_question = [q \in Questions |-> NoParent]
    /\ depends_on_value = [q \in Questions |-> NoValue]
    /\ is_required = [q \in Questions |-> TRUE]
    /\ question_type = [q \in Questions |-> TYPE_TEXT]
    /\ options = [q \in Questions |-> {}]
    /\ responses = {}
    /\ answers = EmptyBag
    /\ request = Request("none", NoAnswers, <<>>, NoResponse, FALSE)
    /\ result = Result("none", {}, FALSE, NoResponse)
    /\ patients = {format_patient_id(1)}
    /\ patient_result = PatientResult("saved", format_patient_id(1))
    /\ patient_saves = 1
    /\ questionnaires = 0
    /\ proc = [p \in Procs |-> Idle]
    /\ \E device \in [SessionIds -> DeviceIds \cup {NoDevice}],
          consent \in [SessionIds -> BOOLEAN] :
          sessions = [s \in SessionIds |->
                         SessionRow(format_patient_id(1), device[s], consent[s])]
    /\ last_session_pk = NumSessions
    /\ devices = [d \in DeviceIds |-> Unlocked]
    /\ screening = ScreeningRequest("ScreeningSessionCreateView", NumSessions,
                                    "created", FALSE)
    /\ starting = [p \in Procs |-> NotStarting]

NextStartRace ==
    \/ \E p \in Procs, pk \in SessionIds : start_get_object(p, pk)
    \/ \E p \in Procs : start_device_used(p)
    \/ \E p \in Procs : start_device_save(p)
    \/ \E p \in Procs : start_session_save(p)

SpecStartRace == InitStartRace /\ [][NextStartRace]_vars


\* ============================================================== claims
\* The activity predicate of the specification (section 4.3): a root is
\* active; a question with a parent is active iff the parent's raw value is
\* its trigger value and the parent is active.  n bounds the walk upwards.
RECURSIVE ActiveWithin(_, _, _)
ActiveWithin(q, raw, n) ==
    IF depends_on_question[q] = NoParent THEN TRUE
    ELSE IF n = 0 THEN FALSE
    ELSE /\ raw[depends_on_question[q]] = depends_on_value[q]
         /\ ActiveWithin(depends_on_question[q], raw, n - 1)

IsActive(q, raw) == ActiveWithin(q, raw, NumQuestions)

RECURSIVE AncestorsWithin(_, _)
AncestorsWithin(q, n) ==
    IF depends_on_question[q] = NoParent \/ n = 0 THEN {}
    ELSE {depends_on_question[q]} \cup AncestorsWithin(depends_on_question[q], n - 1)

Ancestors(q) == AncestorsWithin(q, NumQuestions)

AgreeOnAncestors(q, raw1, raw2) == \A a \in Ancestors(q) : raw1[a] = raw2[a]

\* An Answer row with a populated value slot.
Populated(a) ==
    \/ a.text_answer # Empty
    \/ a.option_answer # {}
    \/ a.file_answer # NoValue
    \/ a.number_answer # NoValue
    \/ a.date_answer # NoValue

Submitted == request.entry # "none"

\* No (response, question) pair has two Answer rows.
NoDuplicateAnswers ==
    \A a \in BagToSet(answers) :
        /\ CopiesIn(a, answers) = 1
        /\ RowsOf(answers, a.response, a.question) = {a}

\* C1: after a submission no Answer row exists, under the Response it wrote,
\* for a question that was inactive for the submitted raw values.
C1_NoAnswerForInactiveQuestion ==
    \A q \in Questions :
        (result.response # NoResponse /\ ~IsActive(q, request.raw))
            => RowsOf(answers, result.response, q) = {}

\* C2: validation reports no error for a question outside the active set.
C2_NoErrorForInactiveQuestion ==
    \A q \in Questions : ~IsActive(q, request.raw) => q \notin result.errors

\* C3: a submission in which an active required question is empty is
\* rejected with an error keyed to that question.
C3_ActiveRequiredEmptyIsRejected ==
    \A q \in Questions :
        (Submitted /\ IsActive(q, request.raw) /\ is_required[q]
                   /\ request.raw[q] = Empty)
            => (result.outcome = "REJECTED" /\ q \in result.errors)

\* C4: a step that ends in a rejection by validation leaves the Response
\* and Answer tables as they were.
C4_RejectionWritesNothing ==
    [][result'.outcome = "REJECTED" => (responses' = responses /\ answers' = answers)]_vars

\* C4 witness: a rejection answered while stored data exists.
C4_RejectedWithStoredData ==
    /\ result.outcome = "REJECTED"
    /\ result.errors # {}
    /\ responses # {}
    /\ answers # EmptyBag

\* C5: a submission ended by an exception after its first write leaves no
\* Response of its own committed.
C5_FailedSubmissionIsRolledBack ==
    result.outcome = "ERROR" => result.response \notin responses

\* C6: a submission ends PERSISTED or REJECTED, and one that wrote a
\* Response had passed validation before.
C6_PersistedOrRejectedAfterValidation ==
    Submitted =>
        /\ result.outcome \in {"PERSISTED", "REJECTED"}
        /\ (result.response # NoResponse => result.validated)

\* C7: the Response a submission persisted has a populated Answer for every
\* active required question.
C7_NoPersistedResponseMissingRequired ==
    \A q \in Questions :
        (result.response \in responses /\ IsActive(q, request.raw) /\ is_required[q])
            => \E a \in RowsOf(answers, result.response, q) : Populated(a)

\* C8: the form treats a question as active exactly when the activity
\* predicate says so: an empty required question is reported iff it is active.
C8_RequiredEnforcedIffActive ==
    \A q \in Questions :
        (request.entry \in {"questionnaire_start", "ResponseForm_save"}
            /\ is_required[q] /\ request.raw[q] = Empty)
            => (q \in result.errors <=> IsActive(q, request.raw))

C10_ResubmissionIsIdempotent ==
    (request.entry = "ResponseForm_save" /\ result.outcome = "PERSISTED")
        => /\ save_answers(answers, result.response, cleaned_data(request.raw), 1)
                = answers
           /\ NoDuplicateAnswers

\* C10 witness: a submission persisted onto an existing Response, whose
\* rows hold the submitted values.
C10_ResubmittedResponse ==
    /\ request.entry = "ResponseForm_save"
    /\ request.instance # NoResponse
    /\ result.outcome = "PERSISTED"
    /\ \E q \in Questions : request.raw[q] # Empty
    /\ \A q \in Questions : Cardinality(RowsOf(answers, request.instance, q)) = 1

\* C11: no (response, question) pair has two Answer rows, and no submission
\* ends in an exception because two of its keys name the same question.
C11_OneAnswerPerQuestionWithoutFailure ==
    /\ NoDuplicateAnswers
    /\ (/\ request.entry = "api_submit_questionnaire"
        /\ ~api_post_loop(request.raw, request.unknown)
        /\ \E i, j \in DOMAIN request.files :
              i < j /\ request.files[i] = request.files[j]
                    /\ request.files[i] # UnknownQuestion)
       => result.outcome # "ERROR"

\* C12: a rejection reports every active required question left empty.
C12_AllMissingRequiredReported ==
    result.outcome = "REJECTED" =>
        \A q \in Questions :
            (IsActive(q, request.raw) /\ is_required[q] /\ request.raw[q] = Empty)
                => q \in result.errors

\* C12 witness: a rejection that reports two active required questions.
C12_TwoMissingReported ==
    /\ result.outcome = "REJECTED"
    /\ \E q1, q2 \in Questions :
          /\ q1 # q2
          /\ \A q \in {q1, q2} :
                /\ IsActive(q, request.raw) /\ is_required[q]
                /\ request.raw[q] = Empty /\ q \in result.errors

\* The keys of request.FILES that name a question of the questionnaire.
KnownFiles(files) == SelectSeq(files, LAMBDA k : k # UnknownQuestion)

HasUnknownKey(req) ==
    req.unknown \/ \E i \in DOMAIN req.files : req.files[i] = UnknownQuestion

\* C13: a submission holding the key of an unknown question ends as the
\* same submission without that key: no Answer for the unknown question, the
\* Answers of its known keys written, no error on account of the key.
C13_UnknownKeyIsIgnored ==
    (request.entry = "api_submit_questionnaire" /\ HasUnknownKey(request))
        => LET r == result.response
               out == api_files_loop(EmptyBag, r, KnownFiles(request.files), 1)
           IN /\ \A a \in BagToSet(answers) : a.question \in Questions
              /\ ~api_post_loop(request.raw, FALSE)
                    => /\ {a \in BagToSet(answers) : a.response = r} = BagToSet(out.tbl)
                       /\ (result.outcome = "PERSISTED") <=> ~out.raised

\* C13 witness: unknown keys in POST and in FILES next to a known file key
\* whose Answer is persisted.
C13_UnknownKeyNextToKnown ==
    /\ request.entry = "api_submit_questionnaire"
    /\ request.unknown
    /\ \E i \in DOMAIN request.files : request.files[i] = UnknownQuestion
    /\ result.outcome = "PERSISTED"
    /\ \E q \in Questions : RowsOf(answers, result.response, q) # {}

\* The parent links hold a cycle: some question is among its own ancestors.
CyclicParents == \E q \in Questions : q \in Ancestors(q)

\* C14: while the parent links hold a cycle no submission is taken: the
\* request ends in a graph error, no form is validated and nothing is stored.
C14_CyclicQuestionnaireIsUnusable ==
    [][(CyclicParents /\ config' = config)
          => /\ result'.outcome = "GraphError"
             /\ responses' = responses /\ answers' = answers]_vars

\* C15: the first root is numbered 1 and each further root one more than
\* the root before it, whatever hangs under the earlier roots.
C15_RootNumbersAreContiguous ==
    \A i \in DOMAIN roots :
        get_display_number(roots[i]) =
            IF i = 1 THEN <<1>>
            ELSE <<get_display_number(roots[i - 1])[1] + 1>>

\* C15 witness: a root numbered right after a root that has a child before it.
C15_RootAfterSubtree ==
    /\ ~CyclicParents
    /\ \E i \in DOMAIN roots :
          /\ i > 1
          /\ \E c \in Questions :
                /\ depends_on_question[c] = roots[i - 1]
                /\ c < roots[i]
          /\ get_display_number(roots[i]) = <<i>>

\* C16: a question with a parent is numbered with the parent's number
\* followed by its 1-based position among all the children of that parent,
\* whatever their trigger values.
C16_ChildNumberIsParentDotIndex ==
    ~CyclicParents =>
        \A q \in Questions :
            depends_on_question[q] # NoParent =>
                LET p == depends_on_question[q]
                    idx == Cardinality({c \in Questions :
                               depends_on_question[c] = p /\ c <= q})
                IN get_display_number(q) = Append(get_display_number(p), idx)

\* C16 witness: two children of one parent with different trigger values,
\* numbered .1 and .2 under it.
C16_TwoBranchesNumbered ==
    /\ ~CyclicParents
    /\ \E p, c1, c2 \in Questions :
          /\ depends_on_question[c1] = p /\ depends_on_question[c2] = p
          /\ c1 < c2
          /\ depends_on_value[c1] # depends_on_value[c2]
          /\ get_display_number(c1) = Append(get_display_number(p), 1)
          /\ get_display_number(c2) = Append(get_display_number(p), 2)

\* C17: a non-empty value submitted for a single-choice question that has
\* no option is accepted as free text: validation reports no error for it.
C17_ZeroOptionRadioAcceptsText ==
    \A q \in Questions :
        (/\ request.entry = "questionnaire_start"
         /\ question_type[q] = TYPE_RADIO /\ options[q] = {}
         /\ request.raw[q] # Empty)
            => q \notin result.errors

\* The highest number among the patient ids of a table, 0 for none.
HighestNumber(tbl) ==
    IF tbl = {} THEN 0
    ELSE CHOOSE n \in {int(s) : s \in tbl} : \A s \in tbl : int(s) <= n

\* C18: the id a new patient is saved with is held by no existing patient
\* and its number is the highest number so far plus one.
C18_GeneratedPatientIdIsFresh ==
    [][patient_result'.outcome \in {"saved", "IntegrityError"}
          => /\ patient_result'.patient_id \notin patients
             /\ int(patient_result'.patient_id) = HighestNumber(patients) + 1]_vars

\* C19: after a submission ResponseForm.save persisted, an active question
\* has an Answer row exactly when its submitted value was not empty.
C19_AnswerIffValueGiven ==
    (request.entry = "ResponseForm_save" /\ result.outcome = "PERSISTED")
        => \A q \in Questions :
              IsActive(q, request.raw)
                  => (RowsOf(answers, result.response, q) # {}
                         <=> request.raw[q] # Empty)

\* The value slots of an Answer row that are populated, by the question
\* type each slot belongs to.
PopulatedSlots(a) ==
    {k \in {TYPE_TEXT, TYPE_RADIO, TYPE_FILE, "number", "date"} :
        \/ k = TYPE_TEXT /\ a.text_answer # Empty
        \/ k = TYPE_RADIO /\ a.option_answer # {}
        \/ k = TYPE_FILE /\ a.file_answer # NoValue
        \/ k = "number" /\ a.number_answer # NoValue
        \/ k = "date" /\ a.date_answer # NoValue}

\* C20: an Answer row has at most one populated value slot, and that slot
\* is the one of its question's type.
C20_OneSlotMatchingKind ==
    \A a \in BagToSet(answers) :
        /\ Cardinality(PopulatedSlots(a)) <= 1
        /\ PopulatedSlots(a) \subseteq {question_type[a.question]}

\* C21: the parent of a question is a question of the same questionnaire.
C21_ParentInSameQuestionnaire ==
    \A q \in Questions : depends_on_question[q] \in Questions \cup {NoParent}

\* C21 witness: a question given a parent by an update, after a request
\* that named a question of another questionnaire.
C21_ParentAssigned ==
    /\ \E q \in Questions : depends_on_question[q] \in Questions
    /\ request.entry = "QuestionCreateView"

\* C22: a question that has a parent has a trigger value.
C22_ParentHasTrigger ==
    \A q \in Questions :
        depends_on_question[q] # NoParent => depends_on_value[q] \notin {NoValue, Empty}

\* C23: an Answer row that is stored stays stored as long as its Response is.
C23_AnswerStaysUntilResponseDeleted ==
    [][\A a \in BagToSet(answers) :
          a.response \in responses'
              => RowsOf(answers', a.response, a.question) # {}]_vars

\* C30: a request to save_questionnaire_api that answers success false
\* leaves no Questionnaire row of its own behind.
C30_FailedBuilderSaveStoresNothing ==
    [][(request'.entry = "save_questionnaire_api" /\ result'.outcome # "PERSISTED")
          => questionnaires' = questionnaires]_vars

\* The Answer row a submission of value v for question q of Response r
\* leaves when it runs alone.
RowOfValue(r, q, v) == CHOOSE a \in BagToSet(SaveAnswer(EmptyBag, r, q, v)) : TRUE

\* C24: when the requests that saved to one Response at the same time are
\* all done, each question they answered has one Answer row, and the row is
\* the one a single one of them writes.
C24_ConcurrentSavesLeaveOneWholeAnswer ==
    (/\ \A p \in Procs : proc[p].pc = "done"
     /\ \A p1, p2 \in Procs : proc[p1].response = proc[p2].response)
        => \A q \in Questions :
              \E p \in Procs :
                  BagToSet(answers) \cap
                      {a \in BagToSet(answers) :
                          a.response = proc[p].response /\ a.question = q}
                    = {RowOfValue(proc[p].response, q, proc[p].raw[q])}

\* C25: when two start_screening requests for two different sessions that
\* use the same device are interleaved, at most one succeeds: never are two
\* in-progress sessions using one device, and never is a session in progress
\* on a device whose locked_session_id names the other session.
C25_OneStartWinsTheDevice ==
    \A s1, s2 \in DOMAIN sessions :
        (/\ s1 # s2
         /\ sessions[s1].status = STATUS_IN_PROGRESS
         /\ sessions[s1].device_used # NoDevice
         /\ sessions[s2].device_used = sessions[s1].device_used)
            => /\ sessions[s2].status # STATUS_IN_PROGRESS
               /\ devices[sessions[s1].device_used].locked_session_id # str(s2)

\* C26: a device that is locked (is_locked with a non-empty
\* locked_session_id) names an existing session that is in progress and
\* whose device_used is that device.
C26_LockNamesItsSession ==
    \A d \in DeviceIds :
        (devices[d].is_locked /\ devices[d].locked_session_id # <<>>)
            => \E s \in DOMAIN sessions :
                  /\ str(s) = devices[d].locked_session_id
                  /\ sessions[s].status = STATUS_IN_PROGRESS
                  /\ sessions[s].device_used = d

\* The device is locked or busy for a session other than pk.
HeldByAnother(device, pk) ==
    /\ device.is_locked \/ device.is_busy
    /\ device.locked_session_id \notin {<<>>, str(pk)}

\* The status changes the lifecycle of a session allows.
Transitions ==
    {<<STATUS_SCHEDULED, STATUS_IN_PROGRESS>>, <<STATUS_IN_PROGRESS, STATUS_COMPLETED>>,
     <<STATUS_SCHEDULED, STATUS_CANCELLED>>, <<STATUS_IN_PROGRESS, STATUS_CANCELLED>>}

\* The statuses in which a start, complete or cancel request is due.
DueIn(view) ==
    CASE view = "start_screening" -> {STATUS_SCHEDULED}
      [] view = "complete_screening" -> {STATUS_IN_PROGRESS}
      [] view = "cancel_screening" -> {STATUS_SCHEDULED, STATUS_IN_PROGRESS}

LifecycleViews == {"start_screening", "complete_screening", "cancel_screening"}

\* C27: start, complete and cancel change a session's status only along
\* scheduled -> in_progress, in_progress -> completed, scheduled -> cancelled
\* and in_progress -> cancelled; completed and cancelled are terminal, and a
\* request made in any other status leaves the session and its device
\* unchanged.
C27_StatusFollowsTheLifecycle ==
    [][screening'.view \in LifecycleViews
          => /\ DOMAIN sessions' = DOMAIN sessions
             /\ \A s \in DOMAIN sessions :
                   sessions'[s].status # sessions[s].status
                      => <<sessions[s].status, sessions'[s].status>> \in Transitions
             /\ sessions[screening'.pk].status \notin DueIn(screening'.view)
                   => UNCHANGED <<sessions, devices>>]_vars

\* C27 witness: the last request asked to complete or cancel a session that
\* is completed already, on a device another session holds by now.
C27_RequestOnFinishedSession ==
    /\ screening.message \in {"cannot_complete", "cannot_cancel"}
    /\ sessions[screening.pk].status = STATUS_COMPLETED
    /\ sessions[screening.pk].device_used # NoDevice
    /\ HeldByAnother(devices[sessions[screening.pk].device_used], screening.pk)

\* C28: start_screening moves a session to in_progress only when
\* consent_obtained is true; when it refuses (no consent, wrong status, or
\* device locked or busy for another session) neither the session nor the
\* device's lock fields are modified.
C28_StartNeedsConsent ==
    [][screening'.view = "start_screening"
          => LET pk == screening'.pk
                 session == sessions[pk]
                 d == session.device_used
             IN  /\ (sessions'[pk].status = STATUS_IN_PROGRESS
                       /\ session.status # STATUS_IN_PROGRESS)
                       => session.consent_obtained
                 /\ (\/ ~session.consent_obtained
                     \/ session.status # STATUS_SCHEDULED
                     \/ d # NoDevice /\ HeldByAnother(devices[d], pk))
                       => UNCHANGED <<sessions, devices>>]_vars

\* C28 witness: a start was refused for want of consent; the session is
\* still scheduled and its device still free.
C28_RefusedWithoutConsent ==
    /\ screening.view = "start_screening"
    /\ screening.message = "consent_required"
    /\ sessions[screening.pk].status = STATUS_SCHEDULED
    /\ ~sessions[screening.pk].conducted_by
    /\ sessions[screening.pk].device_used # NoDevice
    /\ devices[sessions[screening.pk].device_used] = Unlocked

\* C29: complete_screening and cancel_screening release the device lock
\* exactly when the finishing session holds it: afterwards the device has
\* is_locked false, is_busy false and an empty locked_session_id; a device
\* whose locked_session_id names another session is left unchanged.
C29_FinishingReleasesOwnLock ==
    [][(/\ screening'.view \in {"complete_screening", "cancel_screening"}
        /\ sessions'[screening'.pk].status # sessions[screening'.pk].status)
          => LET pk == screening'.pk
                 d == sessions[pk].device_used
             IN  /\ (d # NoDevice /\ devices[d].locked_session_id = str(pk))
                       => devices'[d] = [is_locked |-> FALSE, is_busy |-> FALSE,
                                         locked_session_id |-> <<>>]
                 /\ \A e \in DeviceIds :
                       devices[e].locked_session_id # str(pk)
                          => devices'[e] = devices[e]]_vars

\* C29 witness: the last request finished a session and released the lock
\* it held, while another device stays locked for another session.
C29_ReleasedNextToAnotherLock ==
    /\ screening.view \in {"complete_screening", "cancel_screening"}
    /\ screening.device_saved
    /\ sessions[screening.pk].status \in {STATUS_COMPLETED, STATUS_CANCELLED}
    /\ devices[sessions[screening.pk].device_used] = Unlocked
    /\ \E e \in DeviceIds :
          /\ devices[e].is_locked
          /\ devices[e].locked_session_id \notin {<<>>, str(screening.pk)}

====
